---- MODULE Spec2Model ----
(***************************************************************************)
(* Model of src/main.py: a script over the MetaTrader5 gateway that places *)
(* a market order, lists the open positions and closes them.               *)
(*                                                                         *)
(* Every gateway call is one step.  Between two steps the account and the  *)
(* market may change (MarketMoves, AccountChanges): the account lives in   *)
(* the terminal, not in the script.                                        *)
(*                                                                         *)
(* Volumes are hundredths of a lot (10 = 0.1 lot); prices are small        *)
(* integers.                                                               *)
(***************************************************************************)
EXTENDS Integers, Sequences, FiniteSets, TLC

VARIABLES
    pc,       \* position of the script
    stack,    \* return addresses of the calls in progress
    acct,     \* the gateway's open positions, a sequence of position records
    tick,     \* the gateway's latest quote per symbol, or NoneVal
    envLeft,  \* changes of market/account still allowed
    calls,    \* history: every gateway call made, with its argument and outcome
    log,      \* history: the logging.info / logging.error lines written
    retval,   \* value returned by the last function that returned
    exc,      \* exception that left a function uncaught ("" when none)
    emo,      \* locals of execute_market_order
    lp,       \* locals of liquidate_position
    cat       \* locals of close_all_trades

vars == <<pc, stack, acct, tick, envLeft, calls, log, retval, exc, emo, lp, cat>>

(***************************** bounds **************************************)
MaxPositions == 2
MaxEnvSteps == 1

(************************* program constants *******************************)
ORDER_TYPE_BUY == 0
ORDER_TYPE_SELL == 1
slippage == 20
order_magic == 1

Symbols == {"EURUSD", "GBPUSD"}
Volumes == {10, 20}
ConfigVolumes == {10}
Directions == {"buy", "sell", "hold"}
Filters == {"buy", "sell", "all", "hold"}

(**************************** values ***************************************)
NoneVal == [kind |-> "None"]
Raised == [kind |-> "raise"]
Tick(a, b) == [kind |-> "Tick", ask |-> a, bid |-> b]
TickValues == {Tick(11, 10), Tick(13, 12)}
IsTick(t) == t.kind = "Tick"

OrderSendResult(code, req) ==
    [kind |-> "OrderSendResult", retcode |-> code, request |-> req]

PositionTypes == {ORDER_TYPE_BUY, ORDER_TYPE_SELL}

Position(k, f) ==
    [ticket |-> k, symbol |-> f.symbol, volume |-> f.volume, type |-> f.type,
     price_open |-> 10]

PositionFields == [symbol : Symbols, volume : Volumes, type : PositionTypes]

\* The accounts a run starts from: tickets 1..n, the position with ticket k
\* holding 0.1 * k lot.
BookFields == [symbol : Symbols, type : PositionTypes]

Books(n) ==
    {[i \in 1..n |-> Position(i, [symbol |-> f[i].symbol, volume |-> 10 * i,
                                  type |-> f[i].type])] :
        f \in [1..n -> BookFields]}

AllBooks == UNION {Books(n) : n \in 0..MaxPositions}

\* The quotes a run starts from: every symbol quoted at the opening tick.
\* A symbol loses its quote, or its price changes, by MarketMoves.
OpeningTick == Tick(11, 10)

Quotes == [Symbols -> {OpeningTick}]

RemoveAt(s, i) == SubSeq(s, 1, i - 1) \o SubSeq(s, i + 1, Len(s))

SeqMax(s) == IF s = <<>> THEN 0
             ELSE CHOOSE m \in {s[i].ticket : i \in 1..Len(s)} :
                     \A j \in 1..Len(s) : s[j].ticket <= m

Call(site, op, params, arg, out) ==
    [site |-> site, op |-> op, params |-> params, arg |-> arg, out |-> out]

LogLine(level, msg, val) == [level |-> level, msg |-> msg, val |-> val]

(***************************** gateway *************************************)
\* mt5.symbol_info_tick(symbol): the current tick, or None when the lookup
\* fails (unknown symbol, no quote, no connection).
symbol_info_tick(symbol) == {tick[symbol]}

IsClose(req) == "position" \in DOMAIN req

\* Index of the open position a close request can be filled against, 0 if none.
FillIndex(req) ==
    IF \E i \in 1..Len(acct) :
           /\ acct[i].ticket = req.position
           /\ acct[i].symbol = req.symbol
           /\ acct[i].type # req.type
           /\ req.volume <= acct[i].volume
    THEN CHOOSE i \in 1..Len(acct) : acct[i].ticket = req.position
    ELSE 0

CanFill(req) ==
    /\ IsTick(tick[req.symbol])
    /\ IF IsClose(req) THEN FillIndex(req) # 0 ELSE Len(acct) < MaxPositions

AcctAfterFill(req) ==
    IF IsClose(req)
    THEN LET i == FillIndex(req) IN
         IF acct[i].volume = req.volume
         THEN RemoveAt(acct, i)
         ELSE [acct EXCEPT ![i].volume = acct[i].volume - req.volume]
    ELSE Append(acct, [ticket |-> SeqMax(acct) + 1, symbol |-> req.symbol,
                       volume |-> req.volume, type |-> req.type,
                       price_open |-> req.price])

\* mt5.order_send(request): the pairs (value returned, account afterwards).
\* The order is filled, rejected with a result, answered with None, or the
\* call raises.
order_send(req) ==
    {[out |-> OrderSendResult("TRADE_RETCODE_REJECT", req), acct |-> acct],
     [out |-> NoneVal, acct |-> acct],
     [out |-> Raised, acct |-> acct]}
    \cup
    (IF CanFill(req)
     THEN {[out |-> OrderSendResult("TRADE_RETCODE_DONE", req),
            acct |-> AcctAfterFill(req)]}
     ELSE {})

\* mt5.positions_total()
positions_total == Len(acct)

\* mt5.positions_get(): the open positions, or None when the query fails.
positions_get == {[kind |-> "tuple", rows |-> acct], NoneVal}

(************************ calls and returns ********************************)
Return(v) ==
    /\ pc' = Head(stack)
    /\ stack' = Tail(stack)
    /\ retval' = v
    /\ exc' = exc

\* An exception leaves the function and nothing above it catches it.
Propagate(e) ==
    /\ pc' = "crashed"
    /\ stack' = <<>>
    /\ retval' = retval
    /\ exc' = e

(********************** execute_market_order *******************************)
direction_to_type == [buy |-> 0, sell |-> 1]

\* Faulty variant: the two prices exchanged.
direction_to_price_swapped(tick_data) ==
    [buy |-> tick_data.bid, sell |-> tick_data.ask]

direction_to_price(tick_data) == [buy |-> tick_data.ask, sell |-> tick_data.bid]

order_details(symbol, volume, direction, tick_data) ==
    [action |-> "TRADE_ACTION_DEAL",
     symbol |-> symbol,
     volume |-> volume,
     type |-> direction_to_type[direction],
     price |-> direction_to_price(tick_data)[direction],
     sl |-> 0,
     tp |-> 0,
     deviation |-> slippage,
     magic |-> order_magic,
     comment |-> "",
     type_time |-> "ORDER_TIME_GTC",
     type_filling |-> "ORDER_FILLING_IOC"]

\* Faulty variant: the exception is logged and raised again.
except_execute_market_order_reraise ==
    /\ log' = Append(log, LogLine("ERROR", "Error executing market order", NoneVal))
    /\ Propagate("Exception")

\* Lines 48-50: except Exception: log the error, return None.
except_execute_market_order ==
    /\ log' = Append(log, LogLine("ERROR", "Error executing market order", NoneVal))
    /\ Return(NoneVal)

\* Faulty variant: a result that is not an acceptance is turned into None.
returned_result_checked(result) ==
    IF result.kind = "OrderSendResult" /\ result.retcode = "TRADE_RETCODE_DONE"
    THEN result
    ELSE NoneVal

\* Lines 45-47: the value order_send gave is logged and returned as it is.
returned_result(result) == result

\* Entry: bind the parameters, push the return address.
Enter_execute_market_order(symbol, volume, direction, back) ==
    /\ emo' = [symbol |-> symbol, volume |-> volume, direction |-> direction,
               request |-> NoneVal]
    /\ pc' = "emo_tick"
    /\ stack' = <<back>> \o stack

\* Lines 26-43: the tick lookup and the construction of the request.
execute_market_order_tick ==
    /\ pc = "emo_tick"
    /\ \E out \in symbol_info_tick(emo.symbol) :
         /\ calls' = Append(calls, Call("emo_tick", "symbol_info_tick",
                                        [emo EXCEPT !.request = NoneVal],
                                        emo.symbol, out))
         /\ IF IsTick(out) /\ emo.direction \in DOMAIN direction_to_type
            THEN /\ emo' = [emo EXCEPT !.request =
                              order_details(emo.symbol, emo.volume,
                                            emo.direction, out)]
                 /\ pc' = "emo_send"
                 /\ UNCHANGED <<stack, retval, exc, log>>
            ELSE /\ except_execute_market_order
                 /\ UNCHANGED emo
    /\ UNCHANGED <<acct, tick, envLeft, lp, cat>>

\* Lines 45-50: the submission.
execute_market_order_send ==
    /\ pc = "emo_send"
    /\ \E r \in order_send(emo.request) :
         /\ calls' = Append(calls, Call("emo_send", "order_send",
                                        [emo EXCEPT !.request = NoneVal],
                                        emo.request, r.out))
         /\ acct' = r.acct
         /\ IF r.out = Raised
            THEN except_execute_market_order
            ELSE /\ log' = Append(log, LogLine("INFO", "Market order executed",
                                               returned_result(r.out)))
                 /\ Return(returned_result(r.out))
    /\ UNCHANGED <<tick, envLeft, emo, lp, cat>>

(************************** liquidate_position *****************************)
opposite_order_type == (0 :> ORDER_TYPE_SELL) @@ (1 :> ORDER_TYPE_BUY)

\* Faulty variant: a Buy closed at the ask, a Sell at the bid.
price_data_swapped(bid, ask) == (0 :> ask) @@ (1 :> bid)

price_data(bid, ask) == (0 :> bid) @@ (1 :> ask)

close_order(pos, bid, ask) ==
    [action |-> "TRADE_ACTION_DEAL",
     position |-> pos["ticket"],
     symbol |-> pos["symbol"],
     volume |-> pos["volume"],
     type |-> opposite_order_type[pos["type"]],
     price |-> price_data(bid, ask)[pos["type"]],
     deviation |-> slippage,
     magic |-> order_magic,
     comment |-> "",
     type_time |-> "ORDER_TIME_GTC",
     type_filling |-> "ORDER_FILLING_IOC"]

Enter_liquidate_position(pos, back) ==
    /\ lp' = [pos |-> pos, bid |-> NoneVal, request |-> NoneVal]
    /\ pc' = "lp_bid"
    /\ stack' = <<back>> \o stack

\* Line 66, first lookup: mt5.symbol_info_tick(pos['symbol']).bid
liquidate_position_bid ==
    /\ pc = "lp_bid"
    /\ \E out \in symbol_info_tick(lp.pos["symbol"]) :
         /\ calls' = Append(calls, Call("lp_bid", "symbol_info_tick", lp.pos,
                                        lp.pos["symbol"], out))
         /\ IF IsTick(out)
            THEN /\ lp' = [lp EXCEPT !.bid = out.bid]
                 /\ pc' = "lp_ask"
                 /\ UNCHANGED <<stack, retval, exc, log>>
            ELSE /\ log' = Append(log, LogLine("ERROR",
                                    "Error closing position", NoneVal))
                 /\ Return(NoneVal)
                 /\ UNCHANGED lp
    /\ UNCHANGED <<acct, tick, envLeft, emo, cat>>

\* Line 66, second lookup: mt5.symbol_info_tick(pos['symbol']).ask, and
\* lines 68-80, the construction of the request.
liquidate_position_ask ==
    /\ pc = "lp_ask"
    /\ \E out \in symbol_info_tick(lp.pos["symbol"]) :
         /\ calls' = Append(calls, Call("lp_ask", "symbol_info_tick", lp.pos,
                                        lp.pos["symbol"], out))
         /\ IF IsTick(out) /\ lp.pos["type"] \in DOMAIN opposite_order_type
            THEN /\ lp' = [lp EXCEPT !.request =
                              close_order(lp.pos, lp.bid, out.ask)]
                 /\ pc' = "lp_send"
                 /\ UNCHANGED <<stack, retval, exc, log>>
            ELSE /\ log' = Append(log, LogLine("ERROR",
                                    "Error closing position", NoneVal))
                 /\ Return(NoneVal)
                 /\ UNCHANGED lp
    /\ UNCHANGED <<acct, tick, envLeft, emo, cat>>

\* Lines 82-88: the submission.
liquidate_position_send ==
    /\ pc = "lp_send"
    /\ \E r \in order_send(lp.request) :
         /\ calls' = Append(calls, Call("lp_send", "order_send", lp.pos,
                                        lp.request, r.out))
         /\ acct' = r.acct
         /\ IF r.out = Raised
            THEN /\ log' = log \o <<LogLine("INFO", "Closing position", lp.request),
                                    LogLine("ERROR", "Error closing position", NoneVal)>>
                 /\ Return(NoneVal)
            ELSE /\ log' = log \o <<LogLine("INFO", "Closing position", lp.request),
                                    LogLine("INFO", "Position closed", r.out)>>
                 /\ Return(r.out)
    /\ UNCHANGED <<tick, envLeft, emo, lp, cat>>

(***************************** pandas **************************************)
\* pd.DataFrame(rows, columns=...): one row per element, one cell per column.
DataFrame(rows, columns) ==
    [kind |-> "DataFrame",
     columns |-> columns,
     rows |-> [i \in 1..Len(rows) |-> [c \in columns |-> rows[i][c]]]]

EmptyDataFrame == [kind |-> "DataFrame", columns |-> {}, rows |-> <<>>]

\* Faulty variant: the filter keeps every row.
FilterType_keeps_all(frame, t) == frame

\* frame[frame['type'] == t]
FilterType(frame, t) ==
    [frame EXCEPT !.rows = SelectSeq(frame.rows, LAMBDA r : r["type"] = t)]

(*************************** close_all_trades ******************************)
Enter_close_all_trades(order_direction, back) ==
    /\ cat' = [order_direction |-> order_direction, frame |-> NoneVal, idx |-> 0]
    /\ pc' = "cat_total"
    /\ stack' = <<back>> \o stack

\* Line 100: if mt5.positions_total() > 0
close_all_trades_total ==
    /\ pc = "cat_total"
    /\ calls' = Append(calls, Call("cat_total", "positions_total",
                                   cat.order_direction, NoneVal, positions_total))
    /\ IF positions_total > 0
       THEN /\ pc' = "cat_get"
            /\ UNCHANGED <<stack, retval, exc>>
       ELSE Return(NoneVal)
    /\ UNCHANGED <<acct, tick, envLeft, log, emo, lp, cat>>

\* Lines 101-105: the snapshot, the table and the filter.
close_all_trades_get ==
    /\ pc = "cat_get"
    /\ \E out \in positions_get :
         /\ calls' = Append(calls, Call("cat_get", "positions_get",
                                        cat.order_direction, NoneVal, out))
         /\ IF out = NoneVal
            THEN Propagate("TypeError") /\ UNCHANGED cat
            ELSE IF out.rows = <<>>
            THEN Propagate("IndexError") /\ UNCHANGED cat
            ELSE IF cat.order_direction = "all"
            THEN /\ cat' = [cat EXCEPT !.idx = 1,
                              !.frame = DataFrame(out.rows, DOMAIN out.rows[1])]
                 /\ pc' = "cat_loop"
                 /\ UNCHANGED <<stack, retval, exc>>
            ELSE IF cat.order_direction \in DOMAIN direction_to_type
            THEN /\ cat' = [cat EXCEPT !.idx = 1,
                              !.frame = FilterType(
                                  DataFrame(out.rows, DOMAIN out.rows[1]),
                                  direction_to_type[cat.order_direction])]
                 /\ pc' = "cat_loop"
                 /\ UNCHANGED <<stack, retval, exc>>
            ELSE Propagate("KeyError") /\ UNCHANGED cat
    /\ UNCHANGED <<acct, tick, envLeft, log, emo, lp>>

\* Lines 107-108: the next row, if any, goes to liquidate_position.
close_all_trades_loop ==
    /\ pc = "cat_loop"
    /\ IF cat.idx <= Len(cat.frame.rows)
       THEN /\ Enter_liquidate_position(
                   cat.frame.rows[cat.idx],
                   "cat_result")
            /\ UNCHANGED <<retval, exc>>
       ELSE Return(NoneVal) /\ UNCHANGED lp
    /\ UNCHANGED <<acct, tick, envLeft, calls, log, emo, cat>>

\* Faulty variant: the loop ends at the first close that returns None.
close_all_trades_result_break ==
    /\ pc = "cat_result"
    /\ log' = Append(log, LogLine("INFO", "Order result", retval))
    /\ cat' = [cat EXCEPT !.idx = IF retval = NoneVal
                                  THEN Len(cat.frame.rows) + 1
                                  ELSE cat.idx + 1]
    /\ pc' = "cat_loop"
    /\ UNCHANGED <<stack, acct, tick, envLeft, calls, retval, exc, emo, lp>>

\* Line 109: the result is logged and the loop goes on.
close_all_trades_result ==
    /\ pc = "cat_result"
    /\ log' = Append(log, LogLine("INFO", "Order result", retval))
    /\ cat' = [cat EXCEPT !.idx = cat.idx + 1]
    /\ pc' = "cat_loop"
    /\ UNCHANGED <<stack, acct, tick, envLeft, calls, retval, exc, emo, lp>>

(************************ retrieve_open_positions **************************)
Enter_retrieve_open_positions(back) ==
    /\ pc' = "rop_total"
    /\ stack' = <<back>> \o stack

\* Line 118: if mt5.positions_total()
retrieve_open_positions_total ==
    /\ pc = "rop_total"
    /\ calls' = Append(calls, Call("rop_total", "positions_total",
                                   NoneVal, NoneVal, positions_total))
    /\ IF positions_total # 0
       THEN /\ pc' = "rop_get"
            /\ UNCHANGED <<stack, retval, exc>>
       ELSE Return(EmptyDataFrame)
    /\ UNCHANGED <<acct, tick, envLeft, log, emo, lp, cat>>

\* Lines 119-121
retrieve_open_positions_get ==
    /\ pc = "rop_get"
    /\ \E out \in positions_get :
         /\ calls' = Append(calls, Call("rop_get", "positions_get",
                                        NoneVal, NoneVal, out))
         /\ IF out = NoneVal
            THEN Propagate("TypeError")
            ELSE IF out.rows = <<>>
            THEN Propagate("IndexError")
            ELSE Return(DataFrame(out.rows, DOMAIN out.rows[1]))
    /\ UNCHANGED <<acct, tick, envLeft, log, emo, lp, cat>>

(********************************* main ************************************)
\* Faulty variant: shutdown is called when initialize fails too.
main_initialize_shutdown ==
    /\ pc = "main_init"
    /\ \E ok \in BOOLEAN :
         IF ok
         THEN /\ calls' = Append(calls, Call("main_init", "initialize",
                                             NoneVal, NoneVal, ok))
              /\ pc' = "main_login"
              /\ UNCHANGED log
         ELSE /\ calls' = calls \o
                    <<Call("main_init", "initialize", NoneVal, NoneVal, ok),
                      Call("main_abort", "shutdown", NoneVal, NoneVal, NoneVal)>>
              /\ log' = Append(log, LogLine("ERROR",
                               "MetaTrader 5 initialization failed", NoneVal))
              /\ pc' = "done"
    /\ UNCHANGED <<stack, acct, tick, envLeft, retval, exc, emo, lp, cat>>

\* Lines 128-130
main_initialize ==
    /\ pc = "main_init"
    /\ \E ok \in BOOLEAN :
         /\ calls' = Append(calls, Call("main_init", "initialize",
                                        NoneVal, NoneVal, ok))
         /\ IF ok
            THEN pc' = "main_login" /\ UNCHANGED log
            ELSE /\ log' = Append(log, LogLine("ERROR",
                               "MetaTrader 5 initialization failed", NoneVal))
                 /\ pc' = "done"
    /\ UNCHANGED <<stack, acct, tick, envLeft, retval, exc, emo, lp, cat>>

\* Lines 133-136
main_login ==
    /\ pc = "main_login"
    /\ \E ok \in BOOLEAN :
         IF ok
         THEN /\ calls' = Append(calls, Call("main_login", "login",
                                             NoneVal, NoneVal, ok))
              /\ pc' = "main_order"
              /\ UNCHANGED log
         ELSE /\ calls' = calls \o
                    <<Call("main_login", "login", NoneVal, NoneVal, ok),
                      Call("main_abort", "shutdown", NoneVal, NoneVal, NoneVal)>>
              /\ log' = Append(log, LogLine("ERROR",
                               "MetaTrader 5 login failed", NoneVal))
              /\ pc' = "done"
    /\ UNCHANGED <<stack, acct, tick, envLeft, retval, exc, emo, lp, cat>>

\* Lines 139-144: the configured order.
main_order ==
    /\ pc = "main_order"
    /\ log' = Append(log, LogLine("INFO", "Placing market order", NoneVal))
    /\ \E s \in Symbols, v \in ConfigVolumes, d \in Directions :
         Enter_execute_market_order(s, v, d, "main_query")
    /\ UNCHANGED <<acct, tick, envLeft, calls, retval, exc, lp, cat>>

\* Lines 146-147
main_query ==
    /\ pc = "main_query"
    /\ log' = Append(log, LogLine("INFO", "Retrieving open positions", NoneVal))
    /\ Enter_retrieve_open_positions("main_close")
    /\ UNCHANGED <<acct, tick, envLeft, calls, retval, exc, emo, lp, cat>>

\* Lines 148-152
main_close ==
    /\ pc = "main_close"
    /\ log' = log \o <<LogLine("INFO", "Open positions", retval),
                       LogLine("INFO", "Closing all trades", NoneVal)>>
    /\ Enter_close_all_trades("all", "main_shutdown")
    /\ UNCHANGED <<acct, tick, envLeft, calls, retval, exc, emo, lp>>

\* Line 155
main_shutdown ==
    /\ pc = "main_shutdown"
    /\ calls' = Append(calls, Call("main_shutdown", "shutdown",
                                   NoneVal, NoneVal, NoneVal))
    /\ pc' = "done"
    /\ UNCHANGED <<stack, acct, tick, envLeft, log, retval, exc, emo, lp, cat>>

(***************************** environment *********************************)
\* The script sees the market and the account only through its gateway
\* calls, so a change is taken right before the call that reads what changed:
\* symbol_info_tick and order_send read the quote of one symbol,
\* positions_total and positions_get read the positions, order_send reads
\* the position it is to close (or, for a new order, the room left).
ReadsQuotes == pc \in {"emo_tick", "emo_send", "lp_bid", "lp_ask", "lp_send"}

SymbolRead == IF pc \in {"emo_tick", "emo_send"} THEN emo.symbol ELSE lp.pos["symbol"]

ReadsPositions ==
    pc \in {"emo_send", "lp_send", "cat_total", "cat_get", "rop_total", "rop_get"}

PositionRead(i) == pc = "lp_send" => acct[i].ticket = lp.pos["ticket"]

\* The market moves, or the symbol stops being quoted.
MarketMoves ==
    /\ ReadsQuotes
    /\ envLeft > 0
    /\ \E t \in TickValues \cup {NoneVal} :
         /\ t # tick[SymbolRead]
         /\ tick' = [tick EXCEPT ![SymbolRead] = t]
    /\ envLeft' = envLeft - 1
    /\ UNCHANGED <<pc, stack, acct, calls, log, retval, exc, emo, lp, cat>>

\* The server closes a position (stop-out, stop loss, another terminal).
AccountChanges ==
    /\ ReadsPositions
    /\ envLeft > 0
    /\ \E i \in 1..Len(acct) :
         /\ PositionRead(i)
         /\ acct' = RemoveAt(acct, i)
    /\ envLeft' = envLeft - 1
    /\ UNCHANGED <<pc, stack, tick, calls, log, retval, exc, emo, lp, cat>>

(************************** direct calls ***********************************)
InitGateway ==
    /\ acct \in AllBooks
    /\ tick \in Quotes
    /\ envLeft = MaxEnvSteps
    /\ calls = <<>>
    /\ log = <<>>
    /\ retval = NoneVal
    /\ exc = ""
    /\ stack = <<>>
    /\ emo = NoneVal
    /\ lp = NoneVal
    /\ cat = NoneVal

InitApi == InitGateway /\ pc = "idle"

Call_execute_market_order ==
    /\ pc = "idle"
    /\ \E s \in Symbols, v \in Volumes, d \in Directions :
         Enter_execute_market_order(s, v, d, "returned")
    /\ UNCHANGED <<acct, tick, envLeft, calls, log, retval, exc, lp, cat>>

Call_liquidate_position ==
    /\ pc = "idle"
    /\ \E k \in 1..MaxPositions, f \in PositionFields :
         Enter_liquidate_position(Position(k, f), "returned")
    /\ UNCHANGED <<acct, tick, envLeft, calls, log, retval, exc, emo, cat>>

Call_close_all_trades ==
    /\ pc = "idle"
    /\ \E d \in Filters : Enter_close_all_trades(d, "returned")
    /\ UNCHANGED <<acct, tick, envLeft, calls, log, retval, exc, emo, lp>>

Call_retrieve_open_positions ==
    /\ pc = "idle"
    /\ Enter_retrieve_open_positions("returned")
    /\ UNCHANGED <<acct, tick, envLeft, calls, log, retval, exc, emo, lp, cat>>

Steps ==
    \/ execute_market_order_tick
    \/ execute_market_order_send
    \/ liquidate_position_bid
    \/ liquidate_position_ask
    \/ liquidate_position_send
    \/ close_all_trades_total
    \/ close_all_trades_get
    \/ close_all_trades_loop
    \/ close_all_trades_result
    \/ retrieve_open_positions_total
    \/ retrieve_open_positions_get
    \/ MarketMoves
    \/ AccountChanges

NextApi ==
    \/ Call_execute_market_order
    \/ Call_liquidate_position
    \/ Call_close_all_trades
    \/ Call_retrieve_open_positions
    \/ Steps

\* Each function called once, with any arguments, on any account.
SpecApi == InitApi /\ [][NextApi]_vars

\* The script starts on an account with room for the order it places.
Init == InitGateway /\ Len(acct) < MaxPositions /\ pc = "main_init"

Next ==
    \/ main_initialize
    \/ main_login
    \/ main_order
    \/ main_query
    \/ main_close
    \/ main_shutdown
    \/ Steps

\* One run of the script.
Spec == Init /\ [][Next]_vars
(***************************************************************************)
(*                          history, read back                             *)
(***************************************************************************)
Sites(S) == {i \in 1..Len(calls) : calls[i].site \in S}

Last(s) == s[Len(s)]

ValidDirections == {"buy", "sell"}
ValidFilters == {"buy", "sell", "all"}

\* Which function the direct call of SpecApi was made to.
Called_execute_market_order == emo # NoneVal
Called_close_all_trades == cat # NoneVal
Called_liquidate_position == lp # NoneVal /\ cat = NoneVal
Called_retrieve_open_positions ==
    calls # <<>> /\ calls[1].site = "rop_total"

Accepted(out) == out.kind = "OrderSendResult" /\ out.retcode = "TRADE_RETCODE_DONE"

(***************************************************************************)
(* C1: execute_market_order, given a tick, submits exactly one request:    *)
(* Buy (0) at tick.ask for 'buy', Sell (1) at tick.bid for 'sell', with    *)
(* the symbol and the volume of the call.                                  *)
(***************************************************************************)
C1_OrderFromTick ==
    /\ \A i \in Sites({"emo_send"}) :
         LET a == calls[i].params
             r == calls[i].arg
             t == calls[i - 1].out
         IN  /\ calls[i - 1].site = "emo_tick"
             /\ IsTick(t)
             /\ r.symbol = a.symbol
             /\ r.volume = a.volume
             /\ a.direction \in ValidDirections
             /\ a.direction = "buy" => r.type = 0 /\ r.price = t.ask
             /\ a.direction = "sell" => r.type = 1 /\ r.price = t.bid
    /\ Cardinality(Sites({"emo_send"})) <= 1
    /\ ( /\ pc = "returned"
         /\ Called_execute_market_order
         /\ emo.direction \in ValidDirections
         /\ IsTick(calls[1].out) )
       => Cardinality(Sites({"emo_send"})) = 1

C1_Witness ==
    /\ pc = "returned"
    /\ Called_execute_market_order
    /\ emo.direction = "sell"
    /\ \E i \in Sites({"emo_send"}) :
         /\ calls[i].arg.price = 12
         /\ calls[i].arg.type = 1
         /\ calls[i].arg.volume = 20

(***************************************************************************)
(* C2: liquidate_position submits the opposite side with the position's    *)
(* ticket, symbol and volume, at the bid to close a Buy and at the ask to  *)
(* close a Sell.                                                           *)
(***************************************************************************)
C2_InverseOrder ==
    /\ \A i \in Sites({"lp_send"}) :
         LET pos == calls[i].params
             r == calls[i].arg
         IN  /\ calls[i - 2].site = "lp_bid" /\ calls[i - 2].params = pos
             /\ calls[i - 1].site = "lp_ask" /\ calls[i - 1].params = pos
             /\ r.position = pos["ticket"]
             /\ r.symbol = pos["symbol"]
             /\ r.volume = pos["volume"]
             /\ pos["type"] = ORDER_TYPE_BUY =>
                    r.type = ORDER_TYPE_SELL /\ r.price = calls[i - 2].out.bid
             /\ pos["type"] = ORDER_TYPE_SELL =>
                    r.type = ORDER_TYPE_BUY /\ r.price = calls[i - 1].out.ask
    /\ \A i \in Sites({"lp_ask"}) :
         IsTick(calls[i].out) =>
            IF i = Len(calls) THEN pc = "lp_send" ELSE calls[i + 1].site = "lp_send"

C2_Witness ==
    \E i \in Sites({"lp_send"}) :
       /\ calls[i].params["type"] = ORDER_TYPE_SELL
       /\ calls[i - 2].out # calls[i - 1].out
       /\ calls[i].arg.price = 13
       /\ Accepted(calls[i].out)

(***************************************************************************)
(* C3: close_all_trades and the filter.                                    *)
(***************************************************************************)
Matches(p, filter) == filter = "all" \/ p["type"] = direction_to_type[filter]

\* close_all_trades, called directly with a valid filter, has returned.
CloseAllReturned ==
    /\ pc = "returned"
    /\ Called_close_all_trades
    /\ cat.order_direction \in ValidFilters

Snapshot == IF Len(calls) >= 2 /\ calls[2].site = "cat_get" /\ calls[2].out # NoneVal
            THEN calls[2].out.rows
            ELSE <<>>

OrdersFor(k) == {i \in Sites({"lp_send"}) : calls[i].arg.position = k}

AttemptsFor(k) == {i \in Sites({"lp_bid"}) : calls[i].params["ticket"] = k}

\* The attempt on ticket k got both of its ticks.
Quoted(k) ==
    \E i \in AttemptsFor(k) :
       /\ IsTick(calls[i].out)
       /\ i < Len(calls)
       /\ calls[i + 1].site = "lp_ask"
       /\ IsTick(calls[i + 1].out)

\* C3 as claimed: exactly one close order per position of the snapshot that
\* matches the filter, none for any other, none at all when positions_total
\* is 0.
C3_OneOrderPerMatch ==
    CloseAllReturned =>
       /\ \A j \in 1..Len(Snapshot) :
            Cardinality(OrdersFor(Snapshot[j].ticket)) =
               IF Matches(Snapshot[j], cat.order_direction) THEN 1 ELSE 0
       /\ \A i \in Sites({"lp_send"}) :
            \E j \in 1..Len(Snapshot) : Snapshot[j].ticket = calls[i].arg.position
       /\ calls[1].out = 0 => Sites({"lp_send", "emo_send"}) = {}

\* C3 as amended: exactly one call of liquidate_position per position of the
\* snapshot that matches the filter and none for any other; the call submits
\* exactly one close order when both tick lookups give a tick and none when
\* one gives None; no order at all when positions_total is 0.
C3_OneAttemptPerMatch ==
    CloseAllReturned =>
       /\ \A j \in 1..Len(Snapshot) :
            LET k == Snapshot[j].ticket
                m == Matches(Snapshot[j], cat.order_direction)
            IN  /\ Cardinality(AttemptsFor(k)) = IF m THEN 1 ELSE 0
                /\ Cardinality(OrdersFor(k)) = IF m /\ Quoted(k) THEN 1 ELSE 0
                /\ \A i \in AttemptsFor(k) : calls[i].params = Snapshot[j]
       /\ \A i \in Sites({"lp_bid", "lp_ask", "lp_send"}) :
            \E j \in 1..Len(Snapshot) : Snapshot[j].ticket = calls[i].params["ticket"]
       /\ calls[1].out = 0 => Sites({"lp_send", "emo_send"}) = {}

\* The spec's scenario: a Buy with ticket 1 and a Sell with ticket 2 of 0.2
\* lot, filter 'sell': one close order, for ticket 2, a Buy of 0.2 lot.
C3_Witness ==
    /\ CloseAllReturned
    /\ cat.order_direction = "sell"
    /\ Len(Snapshot) = 2
    /\ Snapshot[1].type = ORDER_TYPE_BUY
    /\ Snapshot[2].type = ORDER_TYPE_SELL
    /\ Cardinality(Sites({"lp_send"})) = 1
    /\ \E i \in OrdersFor(2) :
         /\ calls[i].arg.type = ORDER_TYPE_BUY
         /\ calls[i].arg.volume = 20
         /\ Accepted(calls[i].out)
(***************************************************************************)
(* C4: in close_all_trades a failed close does not stop the batch: every   *)
(* row of the filtered table is handed to liquidate_position, in order,    *)
(* and once the loop has begun close_all_trades does not raise.            *)
(***************************************************************************)
AttemptedRows ==
    LET bids == SelectSeq(calls, LAMBDA c : c.site = "lp_bid")
    IN  [i \in 1..Len(bids) |-> bids[i].params]

\* The close of the row just handed back failed: no tick, order_send raised
\* or returned None, or the order was rejected.
CloseFailed(out) == ~Accepted(out)

C4_BatchGoesOn ==
    Called_close_all_trades =>
       /\ pc = "crashed" => Sites({"lp_bid", "lp_ask", "lp_send"}) = {}
       /\ pc = "returned" /\ cat.frame # NoneVal =>
             AttemptedRows = cat.frame.rows
       /\ pc \in {"cat_loop", "cat_result"} =>
             AttemptedRows = SubSeq(cat.frame.rows, 1,
                                    IF pc = "cat_loop" THEN cat.idx - 1 ELSE cat.idx)

C4_Witness ==
    /\ pc = "returned"
    /\ Called_close_all_trades
    /\ Len(AttemptedRows) = 2
    /\ \E i \in Sites({"lp_bid", "lp_send"}) :
         /\ calls[i].params = AttemptedRows[1]
         /\ CloseFailed(calls[i].out)
         /\ calls[i].site = "lp_send" => calls[i].out = Raised
         /\ calls[i].site = "lp_bid" => calls[i].out = NoneVal
    /\ \E i \in Sites({"lp_send"}) :
         /\ calls[i].params = AttemptedRows[2]
         /\ Accepted(calls[i].out)

(***************************************************************************)
(* C5: in execute_market_order and liquidate_position a failing gateway    *)
(* call (no tick, order_send raising) ends in a logged error and a return  *)
(* of None; nothing is raised to the caller.                               *)
(***************************************************************************)
\* The places execute_market_order and liquidate_position return to.
BackFromOrder ==
    \/ pc = "returned" /\ (Called_execute_market_order \/ Called_liquidate_position)
    \/ pc = "cat_result"

\* The gateway call made the function take its except branch.
Threw(c) ==
    \/ c.site \in {"emo_tick", "lp_bid", "lp_ask"} /\ ~IsTick(c.out)
    \/ c.site \in {"emo_send", "lp_send"} /\ c.out = Raised

C5_NoneOnException ==
    /\ BackFromOrder /\ Threw(Last(calls)) =>
          /\ retval = NoneVal
          /\ Last(log).level = "ERROR"
          /\ exc = ""
    /\ pc = "crashed" => Last(calls).site \in {"cat_get", "rop_get"}
    /\ Called_execute_market_order \/ Called_liquidate_position => pc # "crashed"

C5_Witness ==
    /\ pc = "returned"
    /\ Called_execute_market_order
    /\ Last(calls).site = "emo_send"
    /\ Last(calls).out = Raised
    /\ retval = NoneVal

(***************************************************************************)
(* C6: what execute_market_order returns.                                  *)
(***************************************************************************)
ExecuteReturned == pc = "returned" /\ Called_execute_market_order

Ops == [i \in 1..Len(calls) |-> calls[i].op]

InitFailed == Len(calls) >= 1 /\ calls[1].op = "initialize" /\ calls[1].out = FALSE
LoginFailed == Len(calls) >= 2 /\ calls[2].op = "login" /\ calls[2].out = FALSE

C7_AbortPaths ==
    /\ InitFailed => pc = "done" /\ Ops = <<"initialize">>
    /\ LoginFailed => pc = "done" /\ Ops = <<"initialize", "login", "shutdown">>
    /\ pc = "done" /\ stack = <<>> /\ ~InitFailed /\ ~LoginFailed =>
          Last(calls).site = "main_shutdown"

C7_Witness ==
    /\ pc = "done"
    /\ LoginFailed
    /\ Last(calls).op = "shutdown"
    /\ Last(log).msg = "MetaTrader 5 login failed"

(***************************************************************************)
(* C8: retrieve_open_positions returns an empty table on no position and   *)
(* one row per position, all fields kept, on N positions; it sends no      *)
(* order and leaves the positions alone.                                   *)
(***************************************************************************)
RetrieveEnded ==
    /\ pc \in {"returned", "crashed"}
    /\ Called_retrieve_open_positions

C8_TableOfPositions ==
    RetrieveEnded =>
       /\ exc = ""
       /\ retval.kind = "DataFrame"
       /\ Sites({"emo_send", "lp_send"}) = {}
       /\ envLeft = MaxEnvSteps =>
             /\ Len(retval.rows) = Len(acct)
             /\ \A i \in 1..Len(acct) : retval.rows[i] = acct[i]

(***************************************************************************)
(* C9: close_all_trades (with a valid filter) and retrieve_open_positions  *)
(* never raise, whatever the gateway answers.                              *)
(***************************************************************************)
C9_NeverRaises ==
    \/ Called_retrieve_open_positions
    \/ Called_close_all_trades /\ cat.order_direction \in ValidFilters
    => pc # "crashed" /\ exc = ""

(***************************************************************************)
(* C10: in main every trading call comes after a successful initialize and *)
(* login and before shutdown, in the order place-order, query-positions,   *)
(* close-all; and a run whose initialize succeeded ends with exactly one   *)
(* shutdown call.                                                          *)
(***************************************************************************)
TradingOps == {"symbol_info_tick", "positions_total", "positions_get", "order_send"}

Phase(site) ==
    IF site \in {"main_init", "main_login"} THEN 0
    ELSE IF site \in {"emo_tick", "emo_send"} THEN 1
    ELSE IF site \in {"rop_total", "rop_get"} THEN 2
    ELSE IF site \in {"cat_total", "cat_get", "lp_bid", "lp_ask", "lp_send"} THEN 3
    ELSE 4

Ended == pc \in {"done", "crashed"}

C10_SessionBracket ==
    /\ \A i \in 1..Len(calls) :
         calls[i].op \in TradingOps =>
            /\ i > 2
            /\ calls[1].op = "initialize" /\ calls[1].out = TRUE
            /\ calls[2].op = "login" /\ calls[2].out = TRUE
            /\ \A j \in 1..i : calls[j].op # "shutdown"
    /\ \A i, j \in 1..Len(calls) :
         i < j => Phase(calls[i].site) <= Phase(calls[j].site)
    /\ Ended /\ ~InitFailed =>
          Cardinality({i \in 1..Len(calls) : calls[i].op = "shutdown"}) = 1
====
